---------------------------- MODULE Spec2Model ----------------------------
(***************************************************************************)
(* Task-manager agent: the in-memory task store (todo_service.py), the     *)
(* Task data model (task.py), the tool dispatcher and the two-round agent  *)
(* loop (agent_service.py).                                                *)
(*                                                                         *)
(* Python values are tagged tuples, so that values of different Python     *)
(* types can be compared (None is a value distinct from every str):        *)
(*   <<"None">>             None                                           *)
(*   <<"str", cs>>          a str; cs is its sequence of characters        *)
(*   <<"int", n>>           an int                                         *)
(*   <<"date", y, m, d>>    a datetime.date                                *)
(*   <<"TaskType", cs>>     the TaskType member whose value is cs          *)
(*   <<"TaskStatus", cs>>   the TaskStatus member whose value is cs        *)
(* A dict is a function from its keys; a list is a sequence.               *)
(***************************************************************************)
EXTENDS Integers, Sequences, FiniteSets, TLC

VARIABLES
    tasks,       \* todo_service.tasks: the process-wide list of Task objects
    nextUid,     \* identity of the next Task object constructed
    last,        \* history: the latest _dispatch call, the store before it, its outcome
    nOps,        \* history: number of _dispatch calls made so far
    pc,          \* agent(): position of the request in progress
    messages,    \* agent(): the conversation list
    message,     \* agent(): response.choices[0].message of the first model call
    idx,         \* agent(): number of tool calls of the round already processed
    calls,       \* history: keyword arguments of every chat.completions.create call
    dispatched,  \* history: ids of the tool calls handed to _dispatch, in order
    outcome,     \* agent(): how the request ended: a returned str or a raised exception
    nReq,        \* history: number of requests started
    startTasks,  \* history: the store when the request in progress started
    race         \* the threads of concurrent requests inside todo_service calls,
                 \* and the Task objects removed from the list

vars == <<tasks, nextUid, last, nOps, pc, messages, message, idx, calls,
          dispatched, outcome, nReq, startTasks, race>>

agentVars == <<pc, messages, message, idx, calls, dispatched, outcome, nReq, startTasks>>

---------------------------------------------------------------------------
(* Python values *)

None == <<"None">>

Str(cs) == <<"str", cs>>

PyInt(n) == <<"int", n>>

Date(y, m, d) == <<"date", y, m, d>>

IsStr(v) == v[1] = "str"

IsDate(v) == v[1] = "date"

\* bool(v): None, "" and 0 are false, every other value of the model is true.
Truthy(v) ==
    CASE v = None -> FALSE
      [] IsStr(v) -> v[2] # <<>>
      [] v[1] = "int" -> v[2] # 0
      [] OTHER -> TRUE

\* dict.get(key): the value, or None when the key is absent.
Get(d, k) == IF k \in DOMAIN d THEN d[k] ELSE None

\* The empty dict.
EmptyDict == [k \in {} |-> None]

\* A raised exception and a returned value, as the outcome of a call.
Raise(type, msg) == [raised |-> TRUE, exc |-> [type |-> type, msg |-> msg]]

Return(v) == [raised |-> FALSE, value |-> v]

\* str(exc): the exception's message. A message is a sequence of text
\* fragments: the literal parts of the format string, and the characters of
\* the interpolated value.
ExcStr(exc) == Str(exc.msg)

\* The text of a value interpolated into a message: the characters of a str,
\* the name of anything else.
Text(v) == IF IsStr(v) THEN v[2] ELSE <<v[1]>>

\* repr of a value inside a message: a str is quoted.
Quoted(v) == IF IsStr(v) THEN <<"'">> \o v[2] \o <<"'">> ELSE <<v[1]>>

---------------------------------------------------------------------------
(* task.py *)

TaskTypeValues ==
    { <<"b","u","g">>, <<"f","e","a","t","u","r","e">>,
      <<"i","m","p","r","o","v","e","m","e","n","t">>, <<"t","a","s","k">> }

TaskStatusValues ==
    { <<"p","e","n","d","i","n","g">>, <<"i","n","_","p","r","o","g","r","e","s","s">>,
      <<"d","o","n","e">>, <<"c","a","n","c","e","l","l","e","d">> }

TaskTypeMembers == { <<"TaskType", cs>> : cs \in TaskTypeValues }

TaskStatusMembers == { <<"TaskStatus", cs>> : cs \in TaskStatusValues }

TaskType_TASK == <<"TaskType", <<"t","a","s","k">> >>

TaskType_BUG == <<"TaskType", <<"b","u","g">> >>

TaskStatus_PENDING == <<"TaskStatus", <<"p","e","n","d","i","n","g">> >>

TaskStatus_DONE == <<"TaskStatus", <<"d","o","n","e">> >>

\* Mutant: any str becomes a member, unchecked.
TaskTypeUnchecked(v) ==
    IF IsStr(v) THEN Return(<<"TaskType", v[2]>>)
    ELSE Raise("ValueError", Quoted(v) \o <<" is not a valid TaskType">>)

\* TaskType(value): the member with that value (a member passes through);
\* ValueError for anything else.
TaskType(v) ==
    IF v \in TaskTypeMembers THEN Return(v)
    ELSE IF IsStr(v) /\ v[2] \in TaskTypeValues THEN Return(<<"TaskType", v[2]>>)
    ELSE Raise("ValueError", Quoted(v) \o <<" is not a valid TaskType">>)

TaskStatus(v) ==
    IF v \in TaskStatusMembers THEN Return(v)
    ELSE IF IsStr(v) /\ v[2] \in TaskStatusValues THEN Return(<<"TaskStatus", v[2]>>)
    ELSE Raise("ValueError", Quoted(v) \o <<" is not a valid TaskStatus">>)

\* The dataclass Task; uid stands for the identity of the object.
Task(uid, code, title, description, type, start_date, due_date, status) ==
    [uid |-> uid, code |-> code, title |-> title, description |-> description,
     type |-> type, start_date |-> start_date, due_date |-> due_date,
     status |-> status]

TaskFields == {"code", "title", "description", "type", "start_date", "due_date", "status"}

DigitChars == <<"0", "1", "2", "3", "4", "5", "6", "7", "8", "9">>

Digit(n) == DigitChars[(n % 10) + 1]

\* Mutant: the month is written without its leading zero.
isoformatUnpadded(d) ==
    Str(<< Digit(d[2] \div 1000), Digit(d[2] \div 100), Digit(d[2] \div 10), Digit(d[2]), "-" >>
        \o (IF d[3] < 10 THEN <<Digit(d[3])>> ELSE <<Digit(d[3] \div 10), Digit(d[3])>>)
        \o << "-", Digit(d[4] \div 10), Digit(d[4]) >>)

\* date.isoformat(): YYYY-MM-DD, zero padded.
isoformat(d) ==
    Str(<< Digit(d[2] \div 1000), Digit(d[2] \div 100), Digit(d[2] \div 10), Digit(d[2]),
           "-", Digit(d[3] \div 10), Digit(d[3]),
           "-", Digit(d[4] \div 10), Digit(d[4]) >>)

\* Task.to_dict
to_dict(t) ==
    [k \in TaskFields |->
        CASE k = "code" -> t.code
          [] k = "title" -> t.title
          [] k = "description" -> t.description
          [] k = "type" -> Str(t.type[2])
          [] k = "start_date" -> IF Truthy(t.start_date) THEN isoformat(t.start_date) ELSE None
          [] k = "due_date" -> IF Truthy(t.due_date) THEN isoformat(t.due_date) ELSE None
          [] k = "status" -> Str(t.status[2])]

---------------------------------------------------------------------------
(* datetime.date.fromisoformat, for the YYYY-MM-DD form *)

IsDigit(c) == \E i \in 1..10 : DigitChars[i] = c

DigitVal(c) == (CHOOSE i \in 1..10 : DigitChars[i] = c) - 1

IsLeap(y) == (y % 4 = 0) /\ ((y % 100 # 0) \/ (y % 400 = 0))

DaysInMonth(y, m) ==
    CASE m \in {1, 3, 5, 7, 8, 10, 12} -> 31
      [] m \in {4, 6, 9, 11} -> 30
      [] OTHER -> IF IsLeap(y) THEN 29 ELSE 28

fromisoformat(v) ==
    IF ~IsStr(v) THEN Raise("TypeError", <<"fromisoformat: argument must be str">>)
    ELSE LET cs == v[2] IN
      IF ~( Len(cs) = 10 /\ cs[5] = "-" /\ cs[8] = "-"
            /\ \A i \in {1, 2, 3, 4, 6, 7, 9, 10} : IsDigit(cs[i]) )
      THEN Raise("ValueError", <<"Invalid isoformat string: ">> \o Quoted(v))
      ELSE LET y == 1000 * DigitVal(cs[1]) + 100 * DigitVal(cs[2])
                    + 10 * DigitVal(cs[3]) + DigitVal(cs[4])
               m == 10 * DigitVal(cs[6]) + DigitVal(cs[7])
               d == 10 * DigitVal(cs[9]) + DigitVal(cs[10])
           IN IF y < 1 THEN Raise("ValueError", <<"year 0 is out of range">>)
              ELSE IF m < 1 \/ m > 12 THEN Raise("ValueError", <<"month must be in 1..12">>)
              ELSE IF d < 1 \/ d > DaysInMonth(y, m)
                   THEN Raise("ValueError", <<"day is out of range for month">>)
              ELSE Return(Date(y, m, d))

---------------------------------------------------------------------------
(* Calling a Python function with a dict unpacked as its keyword arguments *)

\* TypeError when a key is no parameter of f or a required parameter is
\* missing; otherwise the arguments as given.
Bind(fname, params, required, arguments) ==
    IF \E k \in DOMAIN arguments : k \notin params
    THEN Raise("TypeError", <<fname, "() got an unexpected keyword argument">>)
    ELSE IF \E k \in required : k \notin DOMAIN arguments
    THEN Raise("TypeError", <<fname, "() missing required positional argument">>)
    ELSE Return(arguments)

\* The value a parameter takes: the argument, or the default when absent.
Param(arguments, k, default) == IF k \in DOMAIN arguments THEN arguments[k] ELSE default

---------------------------------------------------------------------------
(* todo_service.py: every function takes the list ts and returns, besides  *)
(* its value or exception, the list as the call leaves it.                 *)

NoExc == [type |-> "", msg |-> <<>>]

StoreRaise(type, msg, ts) ==
    [raised |-> TRUE, exc |-> [type |-> type, msg |-> msg], value |-> None, tasks |-> ts]

StoreReturn(v, ts) == [raised |-> FALSE, exc |-> NoExc, value |-> v, tasks |-> ts]

NotFoundMsg(code) == <<"No task found with code '">> \o Text(code) \o <<"'">>

\* Mutant: the loop variable outlives the loop, so that a code no task has
\* selects the last task.
FirstIndexLeaky(ts, code) ==
    IF \E i \in 1..Len(ts) : ts[i].code = code
    THEN CHOOSE i \in 1..Len(ts) :
            /\ ts[i].code = code
            /\ \A j \in 1..(i - 1) : ts[j].code # code
    ELSE Len(ts)

\* Mutant: the last task with the code instead of the first.
LastIndex(ts, code) ==
    IF \E i \in 1..Len(ts) : ts[i].code = code
    THEN CHOOSE i \in 1..Len(ts) :
            /\ ts[i].code = code
            /\ \A j \in (i + 1)..Len(ts) : ts[j].code # code
    ELSE 0

\* Index of the first task of ts whose code equals code, 0 when there is none.
FirstIndex(ts, code) ==
    IF \E i \in 1..Len(ts) : ts[i].code = code
    THEN CHOOSE i \in 1..Len(ts) :
            /\ ts[i].code = code
            /\ \A j \in 1..(i - 1) : ts[j].code # code
    ELSE 0

\* Mutant: pop() without the index removes the last element.
PopLast(ts, i) == SubSeq(ts, 1, Len(ts) - 1)

\* list.pop(index)
Pop(ts, i) == SubSeq(ts, 1, i - 1) \o SubSeq(ts, i + 1, Len(ts))

\* Mutant: a code that a stored task has is refused.
add_taskUnique(ts, uid, arguments) ==
    LET b == Bind("add_task", TaskFields, {"code", "title"}, arguments) IN
    IF b.raised THEN StoreRaise(b.exc.type, b.exc.msg, ts)
    ELSE IF \E i \in 1..Len(ts) : ts[i].code = arguments["code"]
    THEN StoreRaise("ValueError", <<"Duplicate code">>, ts)
    ELSE LET task == Task(uid, arguments["code"], arguments["title"],
                          Param(arguments, "description", Str(<<>>)),
                          Param(arguments, "type", TaskType_TASK),
                          Param(arguments, "start_date", None),
                          Param(arguments, "due_date", None),
                          Param(arguments, "status", TaskStatus_PENDING))
         IN StoreReturn(task, Append(ts, task))

add_task(ts, uid, arguments) ==
    LET b == Bind("add_task", TaskFields, {"code", "title"}, arguments) IN
    IF b.raised THEN StoreRaise(b.exc.type, b.exc.msg, ts)
    ELSE LET task == Task(uid, arguments["code"], arguments["title"],
                          Param(arguments, "description", Str(<<>>)),
                          Param(arguments, "type", TaskType_TASK),
                          Param(arguments, "start_date", None),
                          Param(arguments, "due_date", None),
                          Param(arguments, "status", TaskStatus_PENDING))
         IN StoreReturn(task, Append(ts, task))

\* Mutant: no "is not None" guard on the dates, the parameter is assigned
\* as it is.
NewValueNoGuard(task, arguments, k) ==
    IF k \in {"start_date", "due_date"} THEN Param(arguments, k, None)
    ELSE IF Param(arguments, k, None) # None THEN arguments[k] ELSE task[k]

\* The value update_task leaves in field k of task: the argument when it is
\* not None (an absent argument is None, the parameter's default).
NewValue(task, arguments, k) ==
    IF Param(arguments, k, None) # None THEN arguments[k] ELSE task[k]

update_task(ts, arguments) ==
    LET b == Bind("update_task", TaskFields, {"code"}, arguments) IN
    IF b.raised THEN StoreRaise(b.exc.type, b.exc.msg, ts)
    ELSE LET i == FirstIndex(ts, arguments["code"]) IN
      IF i = 0 THEN StoreRaise("ValueError", NotFoundMsg(arguments["code"]), ts)
      ELSE LET task == [k \in DOMAIN ts[i] |->
                          IF k \in {"uid", "code"} THEN ts[i][k]
                          ELSE NewValue(ts[i], arguments, k)]
           IN StoreReturn(task, [ts EXCEPT ![i] = task])

delete_task(ts, arguments) ==
    LET b == Bind("delete_task", {"code"}, {"code"}, arguments) IN
    IF b.raised THEN StoreRaise(b.exc.type, b.exc.msg, ts)
    ELSE LET i == FirstIndex(ts, arguments["code"]) IN
      IF i = 0 THEN StoreRaise("ValueError", NotFoundMsg(arguments["code"]), ts)
      ELSE StoreReturn(ts[i], Pop(ts, i))

UpperChars == <<"A","B","C","D","E","F","G","H","I","J","K","L","M",
                "N","O","P","Q","R","S","T","U","V","W","X","Y","Z">>

LowerChars == <<"a","b","c","d","e","f","g","h","i","j","k","l","m",
                "n","o","p","q","r","s","t","u","v","w","x","y","z">>

\* str.lower(), character by character
LowerChar(c) ==
    IF \E i \in 1..26 : UpperChars[i] = c
    THEN LowerChars[CHOOSE i \in 1..26 : UpperChars[i] = c]
    ELSE c

lower(cs) == [i \in 1..Len(cs) |-> LowerChar(cs[i])]

\* needle in hay, for two str
Contains(hay, needle) ==
    \E i \in 0..(Len(hay) - Len(needle)) : SubSeq(hay, i + 1, i + Len(needle)) = needle

\* Mutant: the search looks at the title only.
MatchesTitleOnly(t, keyword) == Contains(lower(t.title[2]), keyword)

\* The search filter's test on one task: title first, description only when
\* the title does not match.
Matches(t, keyword) ==
    \/ Contains(lower(t.title[2]), keyword)
    \/ Contains(lower(t.description[2]), keyword)

\* Whether the search filter's test raises on t: .lower() of a value that is no str.
MatchRaises(t, keyword) ==
    \/ ~IsStr(t.title)
    \/ /\ ~Contains(lower(t.title[2]), keyword)
       /\ ~IsStr(t.description)

get_tasks(ts, arguments) ==
    LET b == Bind("get_tasks", {"status", "type", "search"}, {}, arguments)
        status == Param(arguments, "status", None)
        type == Param(arguments, "type", None)
        search == Param(arguments, "search", None)
        r1 == IF status # None THEN SelectSeq(ts, LAMBDA t : t.status = status) ELSE ts
        r2 == IF type # None THEN SelectSeq(r1, LAMBDA t : t.type = type) ELSE r1
    IN IF b.raised THEN StoreRaise(b.exc.type, b.exc.msg, ts)
       ELSE IF search = None THEN StoreReturn(r2, ts)
       ELSE IF ~IsStr(search)
            THEN StoreRaise("AttributeError", <<"object has no attribute 'lower'">>, ts)
       ELSE LET keyword == lower(search[2]) IN
            IF \E i \in 1..Len(r2) : MatchRaises(r2[i], keyword)
            THEN StoreRaise("AttributeError", <<"object has no attribute 'lower'">>, ts)
            ELSE StoreReturn(SelectSeq(r2, LAMBDA t : Matches(t, keyword)), ts)

---------------------------------------------------------------------------
(* agent_service.py: the function dispatcher *)

\* Mutant: a malformed date is swallowed and read as no date.
parse_dateLenient(value) ==
    IF Truthy(value) /\ ~fromisoformat(value).raised THEN fromisoformat(value)
    ELSE Return(None)

\* _parse_date
parse_date(value) == IF Truthy(value) THEN fromisoformat(value) ELSE Return(None)

\* arguments[k] = v
With(arguments, k, v) ==
    [x \in DOMAIN arguments \cup {k} |-> IF x = k THEN v ELSE arguments[x]]

\* The outcome of one _dispatch call: the exception it raises or the
\* JSON-serialisable result it returns, and the store as the call leaves it.
DispatchRaise(exc, ts) == [raised |-> TRUE, exc |-> exc, result |-> None, tasks |-> ts]

DispatchReturn(result, ts) == [raised |-> FALSE, exc |-> NoExc, result |-> result, tasks |-> ts]

\* Mutant: a task added without a status is done.
dispatch_addDone(arguments, ts, uid) ==
    LET ty == IF "type" \in DOMAIN arguments THEN TaskType(arguments["type"])
              ELSE Return(TaskType_TASK)
    IN IF ty.raised THEN DispatchRaise(ty.exc, ts) ELSE
    LET st == IF "status" \in DOMAIN arguments THEN TaskStatus(arguments["status"])
              ELSE Return(TaskStatus_DONE)
    IN IF st.raised THEN DispatchRaise(st.exc, ts) ELSE
    LET sd == parse_date(Get(arguments, "start_date"))
    IN IF sd.raised THEN DispatchRaise(sd.exc, ts) ELSE
    LET dd == parse_date(Get(arguments, "due_date"))
    IN IF dd.raised THEN DispatchRaise(dd.exc, ts) ELSE
    LET coerced == With(With(With(With(arguments, "type", ty.value), "status", st.value),
                             "start_date", sd.value), "due_date", dd.value)
        r == add_task(ts, uid, coerced)
    IN IF r.raised THEN DispatchRaise(r.exc, ts)
       ELSE DispatchReturn(to_dict(r.value), r.tasks)

\* Branch name == "add_task"
dispatch_add(arguments, ts, uid) ==
    LET ty == IF "type" \in DOMAIN arguments THEN TaskType(arguments["type"])
              ELSE Return(TaskType_TASK)
    IN IF ty.raised THEN DispatchRaise(ty.exc, ts) ELSE
    LET st == IF "status" \in DOMAIN arguments THEN TaskStatus(arguments["status"])
              ELSE Return(TaskStatus_PENDING)
    IN IF st.raised THEN DispatchRaise(st.exc, ts) ELSE
    LET sd == parse_date(Get(arguments, "start_date"))
    IN IF sd.raised THEN DispatchRaise(sd.exc, ts) ELSE
    LET dd == parse_date(Get(arguments, "due_date"))
    IN IF dd.raised THEN DispatchRaise(dd.exc, ts) ELSE
    LET coerced == With(With(With(With(arguments, "type", ty.value), "status", st.value),
                             "start_date", sd.value), "due_date", dd.value)
        r == add_task(ts, uid, coerced)
    IN IF r.raised THEN DispatchRaise(r.exc, ts)
       ELSE DispatchReturn(to_dict(r.value), r.tasks)

\* Branch name == "get_tasks"
dispatch_get(arguments, ts) ==
    LET st == IF "status" \in DOMAIN arguments THEN TaskStatus(arguments["status"])
              ELSE Return(None)
    IN IF st.raised THEN DispatchRaise(st.exc, ts) ELSE
    LET ty == IF "type" \in DOMAIN arguments THEN TaskType(arguments["type"])
              ELSE Return(None)
    IN IF ty.raised THEN DispatchRaise(ty.exc, ts) ELSE
    LET a1 == IF "status" \in DOMAIN arguments THEN With(arguments, "status", st.value)
              ELSE arguments
        a2 == IF "type" \in DOMAIN arguments THEN With(a1, "type", ty.value) ELSE a1
        r == get_tasks(ts, a2)
    IN IF r.raised THEN DispatchRaise(r.exc, ts)
       ELSE DispatchReturn([i \in 1..Len(r.value) |-> to_dict(r.value[i])], r.tasks)

\* Branch name == "update_task"
dispatch_update(arguments, ts) ==
    LET ty == IF "type" \in DOMAIN arguments THEN TaskType(arguments["type"])
              ELSE Return(None)
    IN IF ty.raised THEN DispatchRaise(ty.exc, ts) ELSE
    LET st == IF "status" \in DOMAIN arguments THEN TaskStatus(arguments["status"])
              ELSE Return(None)
    IN IF st.raised THEN DispatchRaise(st.exc, ts) ELSE
    LET sd == parse_date(Get(arguments, "start_date"))
    IN IF sd.raised THEN DispatchRaise(sd.exc, ts) ELSE
    LET dd == parse_date(Get(arguments, "due_date"))
    IN IF dd.raised THEN DispatchRaise(dd.exc, ts) ELSE
    LET a1 == IF "type" \in DOMAIN arguments THEN With(arguments, "type", ty.value)
              ELSE arguments
        a2 == IF "status" \in DOMAIN arguments THEN With(a1, "status", st.value) ELSE a1
        a3 == With(With(a2, "start_date", sd.value), "due_date", dd.value)
        kept == [k \in {x \in DOMAIN a3 : a3[x] # None \/ x = "code"} |-> a3[k]]
        r == update_task(ts, kept)
    IN IF r.raised THEN DispatchRaise(r.exc, ts)
       ELSE DispatchReturn(to_dict(r.value), r.tasks)

\* Branch name == "delete_task"
dispatch_delete(arguments, ts) ==
    LET r == delete_task(ts, arguments)
    IN IF r.raised THEN DispatchRaise(r.exc, ts)
       ELSE DispatchReturn(to_dict(r.value), r.tasks)

\* Mutant: no raise after the branches, an unknown name falls off the end
\* of the function, which returns None.
dispatchFallsThrough(name, arguments, ts, uid) ==
    CASE name = "add_task" -> dispatch_add(arguments, ts, uid)
      [] name = "get_tasks" -> dispatch_get(arguments, ts)
      [] name = "update_task" -> dispatch_update(arguments, ts)
      [] name = "delete_task" -> dispatch_delete(arguments, ts)
      [] OTHER -> DispatchReturn(None, ts)

\* _dispatch(name, arguments), on the store ts; uid is the identity a Task
\* constructed by the call receives.
dispatch(name, arguments, ts, uid) ==
    CASE name = "add_task" -> dispatch_add(arguments, ts, uid)
      [] name = "get_tasks" -> dispatch_get(arguments, ts)
      [] name = "update_task" -> dispatch_update(arguments, ts)
      [] name = "delete_task" -> dispatch_delete(arguments, ts)
      [] OTHER -> DispatchRaise([type |-> "ValueError",
                                 msg |-> <<"Unknown function: ", name>>], ts)

---------------------------------------------------------------------------
(* agent_service.py: the tool schemas and the JSON codec *)

StringParam == [type |-> "string", enum |-> {}]

EnumParam(values) == [type |-> "string", enum |-> {Str(cs) : cs \in values}]

Tool(name, properties, required) ==
    [type |-> "function",
     function |-> [name |-> name, properties |-> properties, required |-> required]]

\* Mutant: add_task is advertised with a parameter the store does not have.
TOOLSWithPriority ==
    << Tool("add_task",
            [k \in TaskFields \cup {"priority"} |->
                CASE k = "type" -> EnumParam(TaskTypeValues)
                  [] k = "status" -> EnumParam(TaskStatusValues)
                  [] OTHER -> StringParam],
            {"code", "title"}),
       Tool("get_tasks",
            [k \in {"status", "type", "search"} |->
                CASE k = "type" -> EnumParam(TaskTypeValues)
                  [] k = "status" -> EnumParam(TaskStatusValues)
                  [] OTHER -> StringParam],
            {}),
       Tool("update_task",
            [k \in TaskFields |->
                CASE k = "type" -> EnumParam(TaskTypeValues)
                  [] k = "status" -> EnumParam(TaskStatusValues)
                  [] OTHER -> StringParam],
            {"code"}),
       Tool("delete_task", [k \in {"code"} |-> StringParam], {"code"}) >>

\* TOOLS: the four function schemas offered to the model.
TOOLS ==
    << Tool("add_task",
            [k \in TaskFields |->
                CASE k = "type" -> EnumParam(TaskTypeValues)
                  [] k = "status" -> EnumParam(TaskStatusValues)
                  [] OTHER -> StringParam],
            {"code", "title"}),
       Tool("get_tasks",
            [k \in {"status", "type", "search"} |->
                CASE k = "type" -> EnumParam(TaskTypeValues)
                  [] k = "status" -> EnumParam(TaskStatusValues)
                  [] OTHER -> StringParam],
            {}),
       Tool("update_task",
            [k \in TaskFields |->
                CASE k = "type" -> EnumParam(TaskTypeValues)
                  [] k = "status" -> EnumParam(TaskStatusValues)
                  [] OTHER -> StringParam],
            {"code"}),
       Tool("delete_task", [k \in {"code"} |-> StringParam], {"code"}) >>

\* A str holding JSON is <<"json", v>>, the text that encodes the value v;
\* a str that is not JSON is <<"text", cs>>.
json_dumps(v) == <<"json", v>>

json_loads(text) ==
    IF text[1] = "json" THEN Return(text[2])
    ELSE Raise("JSONDecodeError", <<"Expecting value">>)

---------------------------------------------------------------------------
(* Inputs *)

MaxOps == 4

MaxCalls == 2

MaxRequests == 2

T1 == Str(<<"T", "1">>)

T2 == Str(<<"T", "2">>)

NOPE == Str(<<"N", "O", "P", "E">>)

EmptyStr == Str(<<>>)

TitleAb == Str(<<"A", "b">>)

TitleX == Str(<<"X">>)

DescD == Str(<<"a", "B", "c">>)

Bug == Str(<<"b", "u", "g">>)

Done == Str(<<"d", "o", "n", "e">>)

Bogus == Str(<<"b", "o", "g", "u", "s">>)

\* 2024-02-29: a date of a leap year
DateA == Str(<<"2", "0", "2", "4", "-", "0", "2", "-", "2", "9">>)

DateB == Str(<<"2", "0", "2", "5", "-", "1", "2", "-", "3", "1">>)

\* 2023-02-29: the right shape, no calendar date
DateBad == Str(<<"2", "0", "2", "3", "-", "0", "2", "-", "2", "9">>)

DateSoon == Str(<<"s", "o", "o", "n">>)

\* Argument bags of add_task calls.
AddArgs ==
    { ("code" :> c) @@ ("title" :> TitleAb) : c \in {T1, T2} }
    \cup
    { ("code" :> EmptyStr) @@ ("title" :> EmptyStr) }
    \cup
    { ("code" :> T1) @@ ("title" :> TitleAb) @@ opt : opt \in
        { ("type" :> Bug),
          ("type" :> Bogus),
          ("type" :> Bug) @@ ("status" :> Bogus),
          ("description" :> DescD) @@ ("status" :> Done) @@ ("start_date" :> DateA)
              @@ ("due_date" :> DateB),
          ("start_date" :> DateA) @@ ("due_date" :> DateBad),
          ("status" :> Done) @@ ("start_date" :> DateSoon),
          ("type" :> PyInt(5)) } }
    \cup
    { ("code" :> T1), ("title" :> TitleAb) @@ ("code" :> T1) @@ ("priority" :> Bug) }

\* Argument bags of update_task calls.
UpdateArgs ==
    { ("code" :> T2) @@ opt : opt \in { ("title" :> TitleX), ("status" :> Done) } }
    \cup
    { ("code" :> T1) @@ opt : opt \in
        { EmptyDict,
          ("title" :> TitleX),
          ("title" :> EmptyStr),
          ("description" :> EmptyStr),
          ("description" :> DescD),
          ("status" :> Done),
          ("type" :> Bug) @@ ("start_date" :> DateA),
          ("due_date" :> DateB),
          ("start_date" :> EmptyStr) @@ ("due_date" :> None),
          ("title" :> None) @@ ("description" :> None),
          ("title" :> TitleX) @@ ("status" :> Bogus),
          ("title" :> TitleX) @@ ("type" :> Bug) @@ ("start_date" :> DateBad),
          ("status" :> Done) @@ ("due_date" :> DateSoon) } }
    \cup
    { ("code" :> NOPE) @@ ("title" :> TitleX), ("title" :> TitleX), ("code" :> None) }

\* Argument bags of delete_task calls.
DeleteArgs ==
    { ("code" :> T1), ("code" :> T2), ("code" :> NOPE), EmptyDict,
      ("code" :> T1) @@ ("title" :> TitleAb) }

\* Argument bags of get_tasks calls.
GetArgs ==
    { EmptyDict,
      ("type" :> Bug),
      ("status" :> Done),
      ("status" :> Bogus),
      ("search" :> Str(<<"a", "B">>)),
      ("status" :> Done) @@ ("type" :> Bug) @@ ("search" :> Str(<<"b">>)),
      ("search" :> PyInt(5)) }

\* Operation names no branch of the dispatcher handles.
UnknownNames == {"frobnicate"}

---------------------------------------------------------------------------
(* The dispatcher called directly: any sequence of _dispatch calls *)

NoCall == [name |-> "", arguments |-> EmptyDict, before |-> <<>>,
           out |-> DispatchReturn(None, <<>>)]

NoMessage == [role |-> "", content |-> None, tool_calls |-> <<>>]

NoOutcome == [raised |-> FALSE, exc |-> NoExc, value |-> None]

\* The threads that run chat() for two concurrent requests.
Threads == {1, 2}

\* A thread outside any todo_service call. Inside update_task or
\* delete_task: pos is the list iterator's position, ref the identity of
\* the object bound to the local variable task, assigned the number of
\* attribute assignments made. The rest is history of the thread's latest
\* call: the store when it began and ended, whether another thread touched
\* the store in between, and what the call did.
IdleThread ==
    [pc |-> "idle", name |-> "", arguments |-> EmptyDict, pos |-> 0, ref |-> 0,
     assigned |-> 0, before |-> <<>>, after |-> <<>>, disturbed |-> FALSE,
     anomaly |-> "", out |-> NoOutcome]

NoRace == [threads |-> [t \in Threads |-> IdleThread], detached |-> {}]

Init ==
    /\ tasks = <<>>
    /\ nextUid = 1
    /\ last = NoCall
    /\ nOps = 0
    /\ pc = "idle"
    /\ messages = <<>>
    /\ message = NoMessage
    /\ idx = 0
    /\ calls = <<>>
    /\ dispatched = <<>>
    /\ outcome = NoOutcome
    /\ nReq = 0
    /\ startTasks = <<>>
    /\ race = NoRace

\* The effect of one _dispatch(name, arguments) on the store, with its record.
DoDispatch(name, arguments) ==
    LET out == dispatch(name, arguments, tasks, nextUid) IN
    /\ tasks' = out.tasks
    /\ nextUid' = IF name = "add_task" /\ ~out.raised THEN nextUid + 1 ELSE nextUid
    /\ last' = [name |-> name, arguments |-> arguments, before |-> tasks, out |-> out]
    /\ nOps' = nOps + 1

CallAddTask ==
    /\ nOps < MaxOps
    /\ \E a \in AddArgs : DoDispatch("add_task", a)
    /\ UNCHANGED <<agentVars, race>>

CallGetTasks ==
    /\ nOps < MaxOps
    /\ \E a \in GetArgs : DoDispatch("get_tasks", a)
    /\ UNCHANGED <<agentVars, race>>

CallUpdateTask ==
    /\ nOps < MaxOps
    /\ \E a \in UpdateArgs : DoDispatch("update_task", a)
    /\ UNCHANGED <<agentVars, race>>

CallDeleteTask ==
    /\ nOps < MaxOps
    /\ \E a \in DeleteArgs : DoDispatch("delete_task", a)
    /\ UNCHANGED <<agentVars, race>>

CallUnknown ==
    /\ nOps < MaxOps
    /\ \E n \in UnknownNames : DoDispatch(n, EmptyDict)
    /\ UNCHANGED <<agentVars, race>>

NextDispatch ==
    \/ CallAddTask
    \/ CallGetTasks
    \/ CallUpdateTask
    \/ CallDeleteTask
    \/ CallUnknown

SpecDispatch == Init /\ [][NextDispatch]_vars

---------------------------------------------------------------------------
(* The store called directly: any sequence of todo_service calls, with     *)
(* arguments of the parameters' types                                      *)

DayA == Date(2024, 2, 29)

DayB == Date(2025, 12, 31)

StoreAddArgs ==
    { ("code" :> c) @@ ("title" :> TitleAb) : c \in {T1, T2} }
    \cup
    { ("code" :> T1) @@ ("title" :> TitleX) @@ ("description" :> DescD)
        @@ ("type" :> TaskType_BUG) @@ ("start_date" :> DayA) @@ ("due_date" :> DayB)
        @@ ("status" :> TaskStatus_DONE) }

StoreUpdateArgs ==
    { ("code" :> c) @@ opt : c \in {T1, T2}, opt \in
        { ("title" :> TitleX),
          ("status" :> TaskStatus_DONE),
          ("title" :> None) @@ ("description" :> None) @@ ("type" :> None)
              @@ ("start_date" :> None) @@ ("due_date" :> None) @@ ("status" :> None),
          ("start_date" :> DayB) @@ ("due_date" :> None),
          ("description" :> EmptyStr) @@ ("due_date" :> DayA),
          ("title" :> TitleAb) @@ ("type" :> TaskType_BUG) @@ ("status" :> None) } }
    \cup
    { ("code" :> NOPE) @@ ("title" :> TitleX) }

StoreDeleteArgs == { ("code" :> T1), ("code" :> T2), ("code" :> NOPE) }

StoreGetArgs ==
    { EmptyDict,
      ("status" :> TaskStatus_DONE),
      ("type" :> TaskType_BUG),
      ("search" :> Str(<<"a", "B">>)),
      ("status" :> TaskStatus_PENDING) @@ ("type" :> TaskType_TASK) @@ ("search" :> Str(<<"b">>)) }

\* The effect of one store call whose outcome is out, with its record.
DoStore(name, arguments, out) ==
    /\ tasks' = out.tasks
    /\ nextUid' = IF name = "add_task" /\ ~out.raised THEN nextUid + 1 ELSE nextUid
    /\ last' = [name |-> name, arguments |-> arguments, before |-> tasks,
                out |-> [raised |-> out.raised, exc |-> out.exc, result |-> out.value,
                         tasks |-> out.tasks]]
    /\ nOps' = nOps + 1

StoreAddTask ==
    /\ nOps < MaxOps
    /\ \E a \in StoreAddArgs : DoStore("add_task", a, add_task(tasks, nextUid, a))
    /\ UNCHANGED <<agentVars, race>>

StoreGetTasks ==
    /\ nOps < MaxOps
    /\ \E a \in StoreGetArgs : DoStore("get_tasks", a, get_tasks(tasks, a))
    /\ UNCHANGED <<agentVars, race>>

StoreUpdateTask ==
    /\ nOps < MaxOps
    /\ \E a \in StoreUpdateArgs : DoStore("update_task", a, update_task(tasks, a))
    /\ UNCHANGED <<agentVars, race>>

StoreDeleteTask ==
    /\ nOps < MaxOps
    /\ \E a \in StoreDeleteArgs : DoStore("delete_task", a, delete_task(tasks, a))
    /\ UNCHANGED <<agentVars, race>>

NextStore ==
    \/ StoreAddTask
    \/ StoreGetTasks
    \/ StoreUpdateTask
    \/ StoreDeleteTask

SpecStore == Init /\ [][NextStore]_vars

---------------------------------------------------------------------------
(* The store called by two threads at once: chat() is a plain def, which   *)
(* the server runs on a pool of threads, and todo_service takes no lock.   *)
(* One step is one access to the shared list or to a shared Task object.   *)

MaxRaceCalls == 3

MaxRaceAdds == 2

RaceAddArgs == { ("code" :> c) @@ ("title" :> TitleAb) : c \in {T1, T2} }

RaceUpdateArgs == { ("code" :> c) @@ ("title" :> TitleX) : c \in {T1, T2} }

RaceDeleteArgs == { ("code" :> T1), ("code" :> T2) }

\* The order in which update_task tests and assigns its parameters.
AssignOrder == <<"title", "description", "type", "start_date", "due_date", "status">>

\* The attributes a call of update_task assigns, in order.
Assignments(arguments) ==
    SelectSeq(AssignOrder, LAMBDA k : Param(arguments, k, None) # None)

\* The list ts holds the object of identity uid.
InStore(ts, uid) == \E i \in 1..Len(ts) : ts[i].uid = uid

\* The object of identity uid: an element of the list, or an object that
\* was removed from it and is still referenced.
Deref(ts, detached, uid) ==
    IF InStore(ts, uid) THEN ts[CHOOSE i \in 1..Len(ts) : ts[i].uid = uid]
    ELSE CHOOSE r \in detached : r.uid = uid

\* Thread t changed the list or an object: every other thread that is
\* inside a call has been interleaved with a write.
Disturb(threads, t) ==
    [u \in Threads |->
        IF u # t /\ threads[u].pc \notin {"idle", "done"} THEN [threads[u] EXCEPT !.disturbed = TRUE]
        ELSE threads[u]]

\* The call of thread th is over: it raises or returns.
Completed(th, out, after, anomaly) ==
    [th EXCEPT !.pc = "done", !.pos = 0, !.ref = 0, !.assigned = 0,
               !.out = out, !.after = after, !.anomaly = anomaly]

\* The exception or the value a todo_service call ends with.
Raised(type, msg) == [raised |-> TRUE, exc |-> [type |-> type, msg |-> msg], value |-> None]

Returned(v) == [raised |-> FALSE, exc |-> NoExc, value |-> v]

\* A step of thread t that reads only: t moves to th2.
ReadStep(t, th2) ==
    /\ race' = [race EXCEPT !.threads[t] = th2]
    /\ UNCHANGED <<tasks, nextUid, nOps, last, agentVars>>

\* A step of thread t that writes: t moves to th2, and the objects outside
\* the list that some thread still refers to are kept.
WriteStep(t, th2, detached) ==
    LET threads == [Disturb(race.threads, t) EXCEPT ![t] = th2] IN
    race' = [threads |-> threads,
             detached |-> {r \in detached : \E u \in Threads : threads[u].ref = r.uid}]

\* add_task, by a request on a further thread: the Task is built from the
\* arguments alone, tasks.append is one step.
RaceAddTask ==
    /\ nextUid <= MaxRaceAdds
    /\ \E a \in RaceAddArgs :
         /\ tasks' = add_task(tasks, nextUid, a).tasks
         /\ race' = [race EXCEPT !.threads = Disturb(race.threads, 0)]
    /\ nextUid' = nextUid + 1
    /\ nOps' = nOps + 1
    /\ UNCHANGED <<last, agentVars>>

\* The pool gives a request to its first thread that is not running one.
IsFreeThread(t) ==
    /\ race.threads[t].pc = "idle"
    /\ \A u \in Threads : u < t => race.threads[u].pc # "idle"

\* A thread enters update_task.
BeginUpdate ==
    /\ nOps - (nextUid - 1) < MaxRaceCalls
    /\ \E t \in Threads, a \in RaceUpdateArgs :
         /\ IsFreeThread(t)
         /\ race' = [race EXCEPT !.threads[t] =
                [IdleThread EXCEPT !.pc = "locate", !.name = "update_task",
                                   !.arguments = a, !.before = tasks]]
    /\ nOps' = nOps + 1
    /\ UNCHANGED <<tasks, nextUid, last, agentVars>>

\* A thread enters delete_task.
BeginDelete ==
    /\ nOps - (nextUid - 1) < MaxRaceCalls
    /\ \E t \in Threads, a \in RaceDeleteArgs :
         /\ IsFreeThread(t)
         /\ race' = [race EXCEPT !.threads[t] =
                [IdleThread EXCEPT !.pc = "scan", !.name = "delete_task",
                                   !.arguments = a, !.before = tasks]]
    /\ nOps' = nOps + 1
    /\ UNCHANGED <<tasks, nextUid, last, agentVars>>

\* update_task, line 83: next() draws one element from the list iterator
\* and compares its code; the iterator ends when its position has reached
\* the length the list has now.
UpdateLocate ==
    \E t \in Threads :
        LET th == race.threads[t] IN
        /\ th.pc = "locate"
        /\ IF th.pos < Len(tasks)
           THEN LET x == tasks[th.pos + 1] IN
                IF x.code # th.arguments["code"]
                THEN ReadStep(t, [th EXCEPT !.pos = @ + 1])
                ELSE IF Assignments(th.arguments) = <<>>
                THEN ReadStep(t, Completed(th, Returned(x), tasks, ""))
                ELSE ReadStep(t, [th EXCEPT !.pc = "assign", !.ref = x.uid])
           ELSE ReadStep(t, Completed(th, Raised("ValueError", NotFoundMsg(th.arguments["code"])),
                                      tasks, ""))

\* update_task, lines 87-100: one attribute of the located object is
\* assigned, whether or not the list still holds the object; after the
\* last assignment the object is returned.
UpdateAssign ==
    \E t \in Threads :
        LET th == race.threads[t] IN
        /\ th.pc = "assign"
        /\ LET k == Assignments(th.arguments)[th.assigned + 1]
               v == th.arguments[k]
               inStore == InStore(tasks, th.ref)
               ts2 == [i \in 1..Len(tasks) |->
                         IF tasks[i].uid = th.ref THEN [tasks[i] EXCEPT ![k] = v]
                         ELSE tasks[i]]
               det2 == {IF r.uid = th.ref THEN [r EXCEPT ![k] = v] ELSE r : r \in race.detached}
               isLast == th.assigned + 1 = Len(Assignments(th.arguments))
           IN /\ tasks' = ts2
              /\ WriteStep(t,
                    IF isLast
                    THEN Completed(th, Returned(Deref(ts2, det2, th.ref)), ts2,
                                   IF inStore THEN "" ELSE "lost update")
                    ELSE [th EXCEPT !.assigned = @ + 1],
                    det2)
        /\ UNCHANGED <<nextUid, nOps, last, agentVars>>

\* delete_task, lines 108-109: enumerate draws one element from the list
\* iterator and compares its code.
DeleteScan ==
    \E t \in Threads :
        LET th == race.threads[t] IN
        /\ th.pc = "scan"
        /\ IF th.pos < Len(tasks)
           THEN LET x == tasks[th.pos + 1] IN
                IF x.code # th.arguments["code"]
                THEN ReadStep(t, [th EXCEPT !.pos = @ + 1])
                ELSE ReadStep(t, [th EXCEPT !.pc = "pop", !.ref = x.uid])
           ELSE ReadStep(t, Completed(th, Raised("ValueError", NotFoundMsg(th.arguments["code"])),
                                      tasks, ""))

\* Mutant: pop() without the index.
DeletePopLast ==
    \E t \in Threads :
        LET th == race.threads[t] IN
        /\ th.pc = "pop"
        /\ tasks # <<>>
        /\ LET removed == tasks[Len(tasks)]
               ts2 == SubSeq(tasks, 1, Len(tasks) - 1)
               det2 == race.detached \cup {removed}
           IN /\ tasks' = ts2
              /\ WriteStep(t, Completed(th, Returned(Deref(ts2, det2, th.ref)), ts2,
                                        IF removed.uid = th.ref THEN ""
                                        ELSE "inconsistent delete"),
                           det2)
        /\ UNCHANGED <<nextUid, nOps, last, agentVars>>

\* delete_task, lines 110-111: tasks.pop(index) removes whatever object is
\* at the index now, or raises IndexError when the list has become too
\* short; the object that matched is returned.
DeletePop ==
    \E t \in Threads :
        LET th == race.threads[t] IN
        /\ th.pc = "pop"
        /\ IF th.pos < Len(tasks)
           THEN LET removed == tasks[th.pos + 1]
                    ts2 == Pop(tasks, th.pos + 1)
                    det2 == race.detached \cup {removed}
                IN /\ tasks' = ts2
                   /\ WriteStep(t, Completed(th, Returned(Deref(ts2, det2, th.ref)), ts2,
                                             IF removed.uid = th.ref THEN ""
                                             ELSE "inconsistent delete"),
                                race.detached \cup {removed})
           ELSE /\ tasks' = tasks
                /\ WriteStep(t, Completed(th, Raised("IndexError", <<"pop index out of range">>),
                                          tasks, ""),
                             race.detached)
        /\ UNCHANGED <<nextUid, nOps, last, agentVars>>

\* The caller has the outcome of the call; the thread is free again.
RaceReturn ==
    /\ \E t \in Threads :
         /\ race.threads[t].pc = "done"
         /\ race' = [race EXCEPT !.threads[t] = IdleThread]
    /\ UNCHANGED <<tasks, nextUid, nOps, last, agentVars>>

NextRace ==
    \/ RaceAddTask
    \/ BeginUpdate
    \/ BeginDelete
    \/ UpdateLocate
    \/ UpdateAssign
    \/ DeleteScan
    \/ DeletePop
    \/ RaceReturn

SpecRace == Init /\ [][NextRace]_vars

---------------------------------------------------------------------------
(* agent_service.py: agent(), one step per model call and per tool call *)

SystemPrompt ==
    <<"You are a helpful task management assistant. ",
      "Use the provided tools to manage the user's task list. ",
      "Always respond in clear, friendly language.">>

Queries == { Str(<<"h", "i">>) }

\* Texts the model answers with: in the first response, in the second.
Text1 == Str(<<"o", "k">>)

Text2 == Str(<<"d", "o", "n", "e", ".">>)

\* The tool calls the model may emit: an operation name and the str holding
\* its arguments, which is JSON or, for the last one, is cut short.
ModelToolCalls ==
    { [name |-> "add_task",
       arguments |-> json_dumps(("code" :> T1) @@ ("title" :> TitleAb) @@ ("type" :> Bug))],
      [name |-> "add_task",
       arguments |-> json_dumps(("code" :> T2) @@ ("title" :> TitleAb) @@ ("status" :> Bogus))],
      [name |-> "get_tasks", arguments |-> json_dumps(EmptyDict)],
      [name |-> "update_task",
       arguments |-> json_dumps(("code" :> T1) @@ ("status" :> Done))],
      [name |-> "update_task",
       arguments |-> json_dumps(("code" :> T1) @@ ("title" :> TitleX)
                                @@ ("start_date" :> DateSoon))],
      [name |-> "update_task", arguments |-> json_dumps(("code" :> NOPE))],
      [name |-> "delete_task", arguments |-> json_dumps(("code" :> T1))],
      [name |-> "frobnicate", arguments |-> json_dumps(EmptyDict)],
      [name |-> "add_task", arguments |-> <<"text", <<"{", "\"", "c", "o", "d", "e", "\"", ":">> >>] }

\* Lists of at most n tool calls, ids in order of emission.
RECURSIVE CallLists(_)
CallLists(n) ==
    IF n = 0 THEN { <<>> }
    ELSE LET shorter == CallLists(n - 1) IN
         shorter \cup
         { Append(l, [id |-> <<"call_", Len(l) + 1>>, function |-> c]) :
             l \in {x \in shorter : Len(x) = n - 1}, c \in ModelToolCalls }

APIError == [type |-> "APIConnectionError", msg |-> <<"Connection error.">>]

\* Keyword arguments of the first chat.completions.create call.
FirstCallKwargs(msgs) ==
    [model |-> "gpt-4o-mini", messages |-> msgs, tools |-> TOOLS, tool_choice |-> "auto"]

\* Mutant: the second call offers the tool schemas again.
SecondCallKwargsWithTools(msgs) ==
    [model |-> "gpt-4o-mini", messages |-> msgs, tools |-> TOOLS, tool_choice |-> "auto"]

\* Keyword arguments of the second chat.completions.create call.
SecondCallKwargs(msgs) == [model |-> "gpt-4o-mini", messages |-> msgs]

\* The record of one model call: what was sent, and the content of the
\* message that came back (failed when the call raised instead).
ModelCall(kwargs, failed, content) == [kwargs |-> kwargs, failed |-> failed, content |-> content]

\* chat(): a request arrives and agent(query) builds the conversation.
Start ==
    /\ pc = "idle"
    /\ nReq < MaxRequests
    /\ \E query \in Queries :
         messages' = << [role |-> "system", content |-> Str(SystemPrompt)],
                        [role |-> "user", content |-> query] >>
    /\ pc' = "call1"
    /\ message' = NoMessage
    /\ idx' = 0
    /\ calls' = <<>>
    /\ dispatched' = <<>>
    /\ outcome' = NoOutcome
    /\ nReq' = nReq + 1
    /\ startTasks' = tasks
    /\ UNCHANGED <<tasks, nextUid, last, nOps>>
    /\ UNCHANGED race

\* The first model call (tools=TOOLS, tool_choice="auto") returns a message;
\* without tool calls agent() returns its content.
FirstCallResponds ==
    /\ pc = "call1"
    /\ \E content \in {None, Text1}, tool_calls \in CallLists(MaxCalls) :
         LET msg == [role |-> "assistant", content |-> content, tool_calls |-> tool_calls] IN
         /\ message' = msg
         /\ messages' = Append(messages, msg)
         /\ IF tool_calls # <<>>
            THEN pc' = "tools" /\ outcome' = outcome
            ELSE pc' = "returned"
                 /\ outcome' = [raised |-> FALSE, exc |-> NoExc, value |-> content]
         /\ calls' = Append(calls, ModelCall(FirstCallKwargs(messages), FALSE, content))
    /\ idx' = 0
    /\ UNCHANGED <<tasks, nextUid, last, nOps, dispatched, nReq, startTasks>>
    /\ UNCHANGED race

\* The first model call raises: nothing catches it.
FirstCallFails ==
    /\ pc = "call1"
    /\ calls' = Append(calls, ModelCall(FirstCallKwargs(messages), TRUE, None))
    /\ pc' = "raised"
    /\ outcome' = [raised |-> TRUE, exc |-> APIError, value |-> None]
    /\ UNCHANGED <<tasks, nextUid, last, nOps, messages, message, idx, dispatched, nReq, startTasks>>
    /\ UNCHANGED race

\* The tool message appended for a call: the result, or {"error": str(exc)}.
ToolMessage(id, out) ==
    [role |-> "tool", tool_call_id |-> id,
     content |-> json_dumps(IF out.raised THEN ("error" :> ExcStr(out.exc)) ELSE out.result)]

\* Mutant: no except clause, an exception of _dispatch leaves the loop.
ExecuteToolCallNoCatch ==
    /\ pc = "tools"
    /\ idx < Len(message.tool_calls)
    /\ LET tool_call == message.tool_calls[idx + 1]
           name == tool_call.function.name
           arguments == json_loads(tool_call.function.arguments)
           out == dispatch(name, arguments.value, tasks, nextUid)
       IN IF arguments.raised \/ out.raised
          THEN /\ pc' = "raised"
               /\ outcome' = [raised |-> TRUE, value |-> None,
                              exc |-> IF arguments.raised THEN arguments.exc ELSE out.exc]
               /\ UNCHANGED <<tasks, nextUid, last, nOps, messages, idx, dispatched>>
          ELSE /\ DoDispatch(name, arguments.value)
               /\ dispatched' = Append(dispatched, tool_call.id)
               /\ messages' = Append(messages, ToolMessage(tool_call.id, out))
               /\ idx' = idx + 1
               /\ UNCHANGED <<pc, outcome>>
    /\ UNCHANGED <<message, calls, nReq, startTasks>>
    /\ UNCHANGED race

\* One pass of the loop over message.tool_calls: json.loads, outside the
\* try; _dispatch inside it; the tool message.
ExecuteToolCall ==
    /\ pc = "tools"
    /\ idx < Len(message.tool_calls)
    /\ LET tool_call == message.tool_calls[idx + 1]
           name == tool_call.function.name
           arguments == json_loads(tool_call.function.arguments)
       IN IF arguments.raised
          THEN /\ pc' = "raised"
               /\ outcome' = [raised |-> TRUE, exc |-> arguments.exc, value |-> None]
               /\ UNCHANGED <<tasks, nextUid, last, nOps, messages, idx, dispatched>>
          ELSE /\ DoDispatch(name, arguments.value)
               /\ dispatched' = Append(dispatched, tool_call.id)
               /\ messages' = Append(messages,
                     ToolMessage(tool_call.id,
                                 dispatch(name, arguments.value, tasks, nextUid)))
               /\ idx' = idx + 1
               /\ UNCHANGED <<pc, outcome>>
    /\ UNCHANGED <<message, calls, nReq, startTasks>>
    /\ UNCHANGED race

\* After the loop, the second model call (no tools) returns the final text.
SecondCallResponds ==
    /\ pc = "tools"
    /\ idx = Len(message.tool_calls)
    /\ pc' = "returned"
    /\ \E content \in {Text2} :
         /\ calls' = Append(calls, ModelCall(SecondCallKwargs(messages), FALSE, content))
         /\ outcome' = [raised |-> FALSE, exc |-> NoExc, value |-> content]
    /\ UNCHANGED <<tasks, nextUid, last, nOps, messages, message, idx, dispatched, nReq, startTasks>>
    /\ UNCHANGED race

\* Mutant: the failure of the second call is caught and the text of the
\* first response is returned in its place.
SecondCallFailsCaught ==
    /\ pc = "tools"
    /\ idx = Len(message.tool_calls)
    /\ calls' = Append(calls, ModelCall(SecondCallKwargs(messages), TRUE, None))
    /\ pc' = "returned"
    /\ outcome' = [raised |-> FALSE, exc |-> NoExc, value |-> message.content]
    /\ UNCHANGED <<tasks, nextUid, last, nOps, messages, message, idx, dispatched, nReq, startTasks>>
    /\ UNCHANGED race

\* The second model call raises: nothing catches it.
SecondCallFails ==
    /\ pc = "tools"
    /\ idx = Len(message.tool_calls)
    /\ calls' = Append(calls, ModelCall(SecondCallKwargs(messages), TRUE, None))
    /\ pc' = "raised"
    /\ outcome' = [raised |-> TRUE, exc |-> APIError, value |-> None]
    /\ UNCHANGED <<tasks, nextUid, last, nOps, messages, message, idx, dispatched, nReq, startTasks>>
    /\ UNCHANGED race

\* Mutant: a request that ends with an exception puts the store back to
\* what it was when the request started.
FinishRollsBack ==
    /\ pc \in {"returned", "raised"}
    /\ pc' = "idle"
    /\ tasks' = IF pc = "raised" THEN startTasks ELSE tasks
    /\ UNCHANGED <<nextUid, last, nOps, messages, message, idx, calls,
                   dispatched, outcome, nReq, startTasks>>
    /\ UNCHANGED race

\* The request is over: the reply was sent or the exception left chat().
Finish ==
    /\ pc \in {"returned", "raised"}
    /\ pc' = "idle"
    /\ UNCHANGED <<tasks, nextUid, last, nOps, messages, message, idx, calls,
                   dispatched, outcome, nReq, startTasks>>
    /\ UNCHANGED race

Next ==
    \/ Start
    \/ FirstCallResponds
    \/ FirstCallFails
    \/ ExecuteToolCall
    \/ SecondCallResponds
    \/ SecondCallFails
    \/ Finish

Spec == Init /\ [][Next]_vars

---------------------------------------------------------------------------
(* The agent loop: properties of Spec *)

\* A round of tool calls is in progress or over: the first response of the
\* current request carried tool calls.
InRound == message.tool_calls # <<>>

\* The payload agent() appends for the latest _dispatch call.
LastPayload ==
    json_dumps(IF last.out.raised THEN ("error" :> Str(last.out.exc.msg))
               ELSE last.out.result)

\* str(exc) of the ValueError that TaskStatus("bogus") raises
BogusStatusMsg == Str(<<"'", "b", "o", "g", "u", "s", "'", " is not a valid TaskStatus">>)

\* A failure inside the dispatcher: the exception types _dispatch raises.
DispatcherFailures == {"ValueError", "TypeError", "AttributeError"}

C2_ToolFailuresContained == pc = "raised" => outcome.exc = APIError

---------------------------------------------------------------------------
(* The dispatcher and the store: properties of Spec, SpecDispatch, SpecStore *)

\* Argument k is present and is none of the enum's value strings.
BadEnum(arguments, k, values) ==
    k \in DOMAIN arguments /\ arguments[k] \notin {Str(cs) : cs \in values}

\* The date strings of the inputs that are no calendar date.
MalformedDates == {DateBad, DateSoon}

\* Some argument of the call fails coercion.
CoercionFails(arguments) ==
    \/ BadEnum(arguments, "type",
               { <<"b","u","g">>, <<"f","e","a","t","u","r","e">>,
                 <<"i","m","p","r","o","v","e","m","e","n","t">>, <<"t","a","s","k">> })
    \/ BadEnum(arguments, "status",
               { <<"p","e","n","d","i","n","g">>, <<"i","n","_","p","r","o","g","r","e","s","s">>,
                 <<"d","o","n","e">>, <<"c","a","n","c","e","l","l","e","d">> })
    \/ Get(arguments, "start_date") \in MalformedDates
    \/ Get(arguments, "due_date") \in MalformedDates

\* No task of ts has the code the arguments name.
UnknownCode(ts, arguments) ==
    /\ "code" \in DOMAIN arguments
    /\ \A i \in 1..Len(ts) : ts[i].code # arguments["code"]

\* i is the first position of ts whose task has the code.
IsFirstMatch(ts, code, i) ==
    /\ i \in 1..Len(ts)
    /\ ts[i].code = code
    /\ \A j \in 1..(i - 1) : ts[j].code # code

\* C4: an add_task or update_task call of the dispatcher with an argument
\* that fails coercion (type or status outside the enum's values, a
\* malformed date) raises and leaves the store exactly as it was, whatever
\* valid arguments the same call carries.
C4_NoPartialApplication ==
    (last.name \in {"add_task", "update_task"} /\ CoercionFails(last.arguments)) =>
        /\ last.out.raised
        /\ last.out.exc.type = "ValueError"
        /\ tasks = last.before

\* update_task(code=T1, title="X", status="bogus") on a store holding T1,
\* and add_task with a due date that is no calendar date before it.
C4_Witness ==
    /\ last.name = "update_task"
    /\ last.arguments = ("code" :> T1) @@ ("title" :> TitleX) @@ ("status" :> Bogus)
    /\ \E i \in 1..Len(last.before) :
         last.before[i].code = T1 /\ last.before[i].title # TitleX
    /\ last.out.raised
    /\ tasks = last.before

\* C5: update_task and delete_task on a code no stored task has raise
\* ValueError "No task found with code '<code>'" and leave the store as it
\* was; in the agent loop the tool message of that call carries
\* {"error": "No task found with code '<code>'"} and the round goes on.
C5_NotFound ==
    ( /\ last.name \in {"update_task", "delete_task"}
      /\ UnknownCode(last.before, last.arguments)
      /\ DOMAIN last.arguments \subseteq
           (IF last.name = "delete_task" THEN {"code"} ELSE TaskFields)
      /\ ~CoercionFails(last.arguments) ) =>
        LET text == <<"No task found with code '">> \o Text(last.arguments["code"]) \o <<"'">>
        IN /\ last.out.raised
           /\ last.out.exc = [type |-> "ValueError", msg |-> text]
           /\ tasks = last.before
           /\ idx >= 1 =>
                /\ messages[3 + idx].content = json_dumps("error" :> Str(text))
                /\ messages[3 + idx].tool_call_id = message.tool_calls[idx].id
                /\ outcome.exc.type # "ValueError"

\* update_task(code="NOPE") was the last call of a round on a store that
\* holds tasks, and the request returned its reply.
C5_Witness ==
    /\ pc = "returned"
    /\ idx >= 1
    /\ last.name = "update_task"
    /\ last.arguments = ("code" :> NOPE)
    /\ tasks # <<>>
    /\ tasks = last.before
    /\ messages[3 + idx].content =
         json_dumps("error" :> Str(<<"No task found with code '", "N", "O", "P", "E", "'">>))

\* C6: a successful update_task changes, on the first task with the code,
\* exactly the fields whose argument is not None; its other fields, its
\* code and its identity stay, every other task stays, and so do the
\* store's length and order.
C6_UpdateFrame ==
    (last.name = "update_task" /\ ~last.out.raised) =>
        \E i \in 1..Len(last.before) :
            /\ IsFirstMatch(last.before, last.arguments["code"], i)
            /\ Len(tasks) = Len(last.before)
            /\ \A j \in 1..Len(tasks) : j # i => tasks[j] = last.before[j]
            /\ tasks[i].uid = last.before[i].uid
            /\ tasks[i].code = last.before[i].code
            /\ \A k \in TaskFields \ {"code"} :
                 tasks[i][k] = IF k \in DOMAIN last.arguments /\ last.arguments[k] # None
                               THEN last.arguments[k]
                               ELSE last.before[i][k]
            /\ last.out.result = tasks[i]

\* update_task(code=T1, start_date=<date>, due_date=None) on a store with
\* two tasks of code T1, the first of which had a due date.
C6_Witness ==
    /\ last.name = "update_task"
    /\ ~last.out.raised
    /\ last.arguments = ("code" :> T1) @@ ("start_date" :> DayB) @@ ("due_date" :> None)
    /\ Len(tasks) = 2
    /\ last.before[1].code = T1
    /\ last.before[2].code = T1
    /\ last.before[1].due_date = DayB
    /\ last.before[1].start_date = DayA
    /\ tasks[1].start_date = DayB
    /\ tasks[1].due_date = DayB
    /\ tasks[2] = last.before[2]

\* C7: a successful delete_task removes exactly the first task with the
\* code and returns it with the field values it had; the store is one
\* shorter and the other tasks keep their values and their order.
C7_DeleteFirstMatch ==
    (last.name = "delete_task" /\ ~last.out.raised) =>
        \E i \in 1..Len(last.before) :
            /\ IsFirstMatch(last.before, last.arguments["code"], i)
            /\ last.out.result = last.before[i]
            /\ Len(tasks) = Len(last.before) - 1
            /\ \A j \in 1..(i - 1) : tasks[j] = last.before[j]
            /\ \A j \in i..Len(tasks) : tasks[j] = last.before[j + 1]

\* delete_task(T1) on a store [T2, T1, T1] whose two T1 tasks differ: the
\* second task was removed and returned, the third stays.
C7_Witness ==
    /\ last.name = "delete_task"
    /\ ~last.out.raised
    /\ last.arguments = ("code" :> T1)
    /\ Len(last.before) = 3
    /\ last.before[1].code = T2
    /\ last.before[2].code = T1
    /\ last.before[3].code = T1
    /\ last.before[2].title # last.before[3].title
    /\ last.out.result = last.before[2]
    /\ tasks = <<last.before[1], last.before[3]>>

\* C8: every stored task has a non-empty code and a non-empty title.
C8_NonEmptyCodeAndTitle ==
    \A i \in 1..Len(tasks) : Truthy(tasks[i].code) /\ Truthy(tasks[i].title)

\* C9: every stored task's type is one of bug, feature, improvement, task
\* and its status one of pending, in_progress, done, cancelled; a call of
\* the dispatcher that carries another value raises and stores nothing.
C9_ClosedEnums ==
    /\ \A i \in 1..Len(tasks) :
         /\ tasks[i].type \in
              { <<"TaskType", <<"b","u","g">> >>, <<"TaskType", <<"f","e","a","t","u","r","e">> >>,
                <<"TaskType", <<"i","m","p","r","o","v","e","m","e","n","t">> >>,
                <<"TaskType", <<"t","a","s","k">> >> }
         /\ tasks[i].status \in
              { <<"TaskStatus", <<"p","e","n","d","i","n","g">> >>,
                <<"TaskStatus", <<"i","n","_","p","r","o","g","r","e","s","s">> >>,
                <<"TaskStatus", <<"d","o","n","e">> >>,
                <<"TaskStatus", <<"c","a","n","c","e","l","l","e","d">> >> }
    /\ ( /\ last.name \in {"add_task", "update_task"}
         /\ \/ BadEnum(last.arguments, "type", TaskTypeValues)
            \/ BadEnum(last.arguments, "status", TaskStatusValues) ) =>
           (last.out.raised /\ tasks = last.before)

\* add_task with type "bogus" was refused on a store that holds a task of
\* type bug.
C9_Witness ==
    /\ last.name = "add_task"
    /\ Get(last.arguments, "type") = Bogus
    /\ last.out.raised
    /\ \E i \in 1..Len(tasks) : tasks[i].type = TaskType_BUG
    /\ \E i \in 1..Len(tasks) : tasks[i].status = TaskStatus_DONE

\* The step is an update_task call of the dispatcher.
UpdateStep == last'.name = "update_task" /\ nOps' = nOps + 1

\* C10 as stated: no update_task call of the dispatcher makes a start_date
\* or due_date that is a date null, or a non-empty description empty,
\* while the task remains in the store.
C10_NoFieldCleared ==
    [][UpdateStep =>
         \A i \in 1..Len(tasks), j \in 1..Len(tasks') :
            tasks[i].uid = tasks'[j].uid =>
              /\ IsDate(tasks[i].start_date) => IsDate(tasks'[j].start_date)
              /\ IsDate(tasks[i].due_date) => IsDate(tasks'[j].due_date)
              /\ Truthy(tasks[i].description) => Truthy(tasks'[j].description)]_vars

\* C10, amended: no update_task call of the dispatcher makes a start_date
\* or due_date that is a date null while the task remains in the store.
C10_NoDateCleared ==
    [][UpdateStep =>
         \A i \in 1..Len(tasks), j \in 1..Len(tasks') :
            tasks[i].uid = tasks'[j].uid =>
              /\ IsDate(tasks[i].start_date) => IsDate(tasks'[j].start_date)
              /\ IsDate(tasks[i].due_date) => IsDate(tasks'[j].due_date)]_vars

\* update_task(code=T1, start_date="", due_date=null) succeeded on a task
\* with both dates set, and the dates are still there.
C10_Witness ==
    /\ last.name = "update_task"
    /\ last.arguments = ("code" :> T1) @@ ("start_date" :> EmptyStr) @@ ("due_date" :> None)
    /\ ~last.out.raised
    /\ \E i \in 1..Len(tasks) :
         /\ tasks[i].code = T1
         /\ last.before[i].start_date = DayA
         /\ last.before[i].due_date = DayB
         /\ tasks[i] = last.before[i]

\* keyword occurs in text when the case of the letters is ignored.
ContainsIgnoringCase(text, keyword) ==
    \E i \in 0..(Len(text) - Len(keyword)) :
        \A j \in 1..Len(keyword) : LowerChar(text[i + j]) = LowerChar(keyword[j])

\* The task t passes every filter that arguments supplies.
Satisfies(t, arguments) ==
    /\ Param(arguments, "status", None) # None => t.status = arguments["status"]
    /\ Param(arguments, "type", None) # None => t.type = arguments["type"]
    /\ Param(arguments, "search", None) # None =>
          \/ ContainsIgnoringCase(t.title[2], arguments["search"][2])
          \/ ContainsIgnoringCase(t.description[2], arguments["search"][2])

\* The positions of ts whose task passes the filters of arguments.
Selected(ts, arguments) == {i \in 1..Len(ts) : Satisfies(ts[i], arguments)}

\* C11: a get_tasks call leaves the store as it is and returns exactly the
\* stored tasks that pass every supplied filter, each once and in the
\* store's order: the k-th task of the result is the k-th stored task that
\* passes. Without filters the result is the store itself.
C11_GetTasksFilters ==
    (last.name = "get_tasks" /\ ~last.out.raised) =>
        LET sel == Selected(last.before, last.arguments) IN
        /\ tasks = last.before
        /\ Len(last.out.result) = Cardinality(sel)
        /\ \A i \in sel :
             last.out.result[Cardinality({j \in sel : j <= i})] = last.before[i]
        /\ last.arguments = EmptyDict => last.out.result = tasks

\* get_tasks(search="aB") on a store of two tasks: the first has neither
\* "ab" in its title nor a description and is left out, the second has the
\* keyword in its description only, in another case, and is returned.
C11_Witness ==
    /\ last.name = "get_tasks"
    /\ ~last.out.raised
    /\ last.arguments = ("search" :> Str(<<"a", "B">>))
    /\ Len(tasks) = 2
    /\ tasks[1].title = TitleX
    /\ tasks[1].description = EmptyStr
    /\ tasks[2].title = TitleX
    /\ tasks[2].description = DescD
    /\ last.out.result = <<tasks[2]>>

\* C12: when a model call of a request raised, in either round, the request
\* ended with that exception leaving agent() and chat(): no reply value was
\* produced, and a request that returned a reply had no failed model call.
C12_ModelFailurePropagates ==
    /\ (calls # <<>> /\ calls[Len(calls)].failed) =>
          /\ pc \in {"raised", "idle"}
          /\ outcome = [raised |-> TRUE, exc |-> APIError, value |-> None]
    /\ pc = "returned" => \A i \in 1..Len(calls) : ~calls[i].failed
    /\ \A i \in 1..(Len(calls) - 1) : ~calls[i].failed

\* The first response carried a text and tool calls, the tool calls ran,
\* and the second model call raised: the request ends with the exception
\* and without the text.
C12_Witness ==
    /\ pc = "raised"
    /\ Len(calls) = 2
    /\ calls[2].failed
    /\ message.content = Text1
    /\ idx = Len(message.tool_calls)
    /\ idx > 0
    /\ outcome.raised
    /\ outcome.value = None

\* The outcome and the store that the call of a thread has when nothing
\* runs between its steps: those of the function run in one piece on the
\* store the call began with.
SerialCall(th) ==
    IF th.name = "update_task" THEN update_task(th.before, th.arguments)
    ELSE delete_task(th.before, th.arguments)

\* C13: the functions take no lock, and a call of update_task or
\* delete_task behaves as one piece only when no other thread writes
\* between its steps: such a call ends with the outcome and the store of
\* the function run in one piece, and a call that reports success on a
\* task the store no longer holds, or returns a task other than the one it
\* removed, was interleaved with a write of another thread.
C13_OnlyUndisturbedCallsAreSerial ==
    \A t \in Threads :
        LET th == race.threads[t] IN
        th.pc = "done" =>
            /\ th.anomaly # "" => th.disturbed
            /\ ~th.disturbed =>
                  /\ th.out.raised = SerialCall(th).raised
                  /\ th.out.exc = SerialCall(th).exc
                  /\ ~th.out.raised => th.out.value = SerialCall(th).value
                  /\ th.after = SerialCall(th).tasks

\* Two tasks were stored and both threads ran delete_task(T1): each found
\* the first task at index 0, one popped it, and the other then popped
\* index 0 again, which removed the second task while it returned the
\* first. In between update_task(T2) had located the second task: it
\* assigned its title and returned it, and the store does not hold it.
C13_Witness ==
    \E t \in Threads, u \in Threads :
        LET upd == race.threads[t]
            del == race.threads[u]
        IN /\ upd.pc = "done" /\ upd.name = "update_task"
           /\ upd.anomaly = "lost update"
           /\ ~upd.out.raised
           /\ upd.out.value.title = TitleX
           /\ InStore(upd.before, upd.out.value.uid)
           /\ ~InStore(tasks, upd.out.value.uid)
           /\ del.pc = "done" /\ del.name = "delete_task"
           /\ del.anomaly = "inconsistent delete"
           /\ ~del.out.raised
           /\ del.out.value.code = T1
           /\ del.after = <<>>
           /\ Len(del.before) = 2
           /\ del.before[2].code = T2

\* The positions of ts whose task has the code.
WithCode(ts, code) == {i \in 1..Len(ts) : ts[i].code = code}

\* C14: codes need not be unique. add_task with a code that stored tasks
\* have succeeds like any other and the new task is appended behind them;
\* a successful update_task or delete_task acts on the task that comes
\* first among those with the code, and every later task with the code is
\* still in the store, as it was and after the tasks it came after.
C14_DuplicateCodes ==
    LET code == last.arguments["code"]
        dup == WithCode(last.before, code)
    IN /\ last.name = "add_task" =>
            /\ ~last.out.raised
            /\ tasks = Append(last.before, last.out.result)
            /\ WithCode(tasks, code) = dup \cup {Len(tasks)}
       /\ (last.name \in {"update_task", "delete_task"} /\ ~last.out.raised) =>
            /\ dup # {}
            /\ \A i \in dup : last.before[i].uid = last.out.result.uid => \A j \in dup : i <= j
            /\ \A j \in dup : last.before[j].uid # last.out.result.uid =>
                  \E k \in 1..Len(tasks) :
                      /\ tasks[k] = last.before[j]
                      /\ k = IF last.name = "delete_task" THEN j - 1 ELSE j
            /\ Cardinality(WithCode(tasks, code)) =
                  IF last.name = "delete_task" THEN Cardinality(dup) - 1 ELSE Cardinality(dup)

\* Two tasks of code T1 were added with the same title, and
\* update_task(T1, title) renamed the first: the second has its old title.
C14_Witness ==
    /\ last.name = "update_task"
    /\ ~last.out.raised
    /\ last.arguments = ("code" :> T1) @@ ("title" :> TitleX)
    /\ Len(tasks) = 2
    /\ WithCode(last.before, T1) = {1, 2}
    /\ last.before[1].title = TitleAb
    /\ last.before[2].title = TitleAb
    /\ tasks[1].title = TitleX
    /\ tasks[2].title = TitleAb
    /\ tasks[1].uid < tasks[2].uid

\* The date that the dispatcher stores for key k of an add_task call is the
\* one the argument spells, or None when the argument is absent or empty.
DateStored(arguments, k, value) ==
    IF Truthy(Get(arguments, k))
    THEN IsDate(value) /\ isoformat(value) = arguments[k]
    ELSE value = None

\* The step from an add_task call that succeeded on the empty store with
\* code T1, type "bug" and no status to the call get_tasks(type="bug").
AddBugThenGetBugs ==
    /\ last.name = "add_task"
    /\ last.before = <<>>
    /\ ~last.out.raised
    /\ last.arguments = ("code" :> T1) @@ ("title" :> TitleAb) @@ ("type" :> Bug)
    /\ last'.name = "get_tasks"
    /\ last'.arguments = ("type" :> Bug)
    /\ nOps' = nOps + 1

\* C15: a successful add_task call of the dispatcher appends one task to
\* the store, whose earlier tasks stay as they are, and returns the
\* task's field map. The task has the code, title and description
\* supplied, the type supplied or "task", the status supplied or
\* "pending", and for each date the date supplied or None. And
\* get_tasks(type="bug"), right after add_task(code T1, type "bug") on the
\* empty store, returns one field map, of code T1 and status "pending".
C15_AddTask ==
    /\ []((last.name = "add_task" /\ ~last.out.raised) =>
            LET a == last.arguments
                new == tasks[Len(tasks)]
            IN /\ Len(tasks) = Len(last.before) + 1
               /\ SubSeq(tasks, 1, Len(last.before)) = last.before
               /\ last.out.result = to_dict(new)
               /\ new.code = a["code"]
               /\ new.title = a["title"]
               /\ new.description = Param(a, "description", EmptyStr)
               /\ new.type = <<"TaskType", Param(a, "type", Str(<<"t", "a", "s", "k">>))[2]>>
               /\ new.status =
                    <<"TaskStatus", Param(a, "status", Str(<<"p", "e", "n", "d", "i", "n", "g">>))[2]>>
               /\ DateStored(a, "start_date", new.start_date)
               /\ DateStored(a, "due_date", new.due_date))
    /\ [][AddBugThenGetBugs =>
            /\ ~last'.out.raised
            /\ Len(last'.out.result) = 1
            /\ last'.out.result[1]["code"] = T1
            /\ last'.out.result[1]["type"] = Bug
            /\ last'.out.result[1]["status"] = Str(<<"p", "e", "n", "d", "i", "n", "g">>)]_vars

\* The two calls of the scenario were made, and nothing else: the store
\* holds the one task, of type "bug", with the default status and no
\* dates, and get_tasks(type="bug") returned its field map.
C15_Witness ==
    /\ nOps = 2
    /\ last.name = "get_tasks"
    /\ last.arguments = ("type" :> Bug)
    /\ Len(tasks) = 1
    /\ tasks[1].uid = 1
    /\ tasks[1].code = T1
    /\ tasks[1].type = TaskType_BUG
    /\ tasks[1].status = TaskStatus_PENDING
    /\ tasks[1].start_date = None
    /\ tasks[1].due_date = None
    /\ last.out.result = <<to_dict(tasks[1])>>

\* The names for which _dispatch has a branch.
OperationNames == {"add_task", "get_tasks", "update_task", "delete_task"}

\* C16: a _dispatch call with a name that is no operation raises an error
\* whose message contains the name and leaves the store as it was; in the
\* agent loop the tool message of such a call is {"error": message}.
C16_UnknownOperation ==
    /\ last.name \notin OperationNames \cup {""} =>
          /\ last.out.raised
          /\ last.out.exc.type = "ValueError"
          /\ \E i \in 1..Len(last.out.exc.msg) : last.out.exc.msg[i] = last.name
          /\ last.out.tasks = last.before
    /\ \A i \in 1..idx :
          LET call == message.tool_calls[i] IN
          call.function.name \notin OperationNames =>
              messages[3 + i] =
                  [role |-> "tool", tool_call_id |-> call.id,
                   content |-> json_dumps("error" :>
                                   Str(<<"Unknown function: ", call.function.name>>))]

\* A round of two calls: add_task stored a task, then "frobnicate", which
\* left the store alone and was answered with the error payload.
C16_Witness ==
    /\ pc = "tools"
    /\ idx = 2
    /\ message.tool_calls[1].function.name = "add_task"
    /\ message.tool_calls[2].function.name = "frobnicate"
    /\ last.name = "frobnicate"
    /\ Len(tasks) = Len(startTasks) + 1
    /\ tasks = last.before
    /\ messages[5].content =
         json_dumps("error" :> Str(<<"Unknown function: ", "frobnicate">>))

\* The names advertised in TOOLS.
AdvertisedNames == {TOOLS[i].function.name : i \in 1..Len(TOOLS)}

\* The schema advertised under a name.
ToolNamed(name) ==
    TOOLS[CHOOSE i \in 1..Len(TOOLS) : TOOLS[i].function.name = name].function

\* _dispatch has a branch for the name: a call does not end at the final
\* raise.
Handles(name) ==
    LET out == dispatch(name, EmptyDict, <<>>, 1)
    IN ~(out.raised /\ out.exc.msg = <<"Unknown function: ", name>>)

\* The call passes keyword arguments the function does not have, or lacks
\* one it requires.
BindingFails(out, fname) ==
    out.raised /\ out.exc.type = "TypeError" /\ out.exc.msg[1] = fname

\* C17: the names advertised in TOOLS are the names _dispatch handles, one
\* schema each; a _dispatch call whose argument keys are advertised for
\* its name, the required ones among them, passes no keyword that the
\* store function lacks; and the enum lists of type and status are
\* {bug, feature, improvement, task} and {pending, in_progress, done,
\* cancelled}, the values TaskType and TaskStatus accept.
C17_RegistryMirrorsDispatcher ==
    LET types == { Str(<<"b","u","g">>), Str(<<"f","e","a","t","u","r","e">>),
                   Str(<<"i","m","p","r","o","v","e","m","e","n","t">>),
                   Str(<<"t","a","s","k">>) }
        statuses == { Str(<<"p","e","n","d","i","n","g">>),
                      Str(<<"i","n","_","p","r","o","g","r","e","s","s">>),
                      Str(<<"d","o","n","e">>), Str(<<"c","a","n","c","e","l","l","e","d">>) }
    IN /\ AdvertisedNames = {n \in AdvertisedNames \cup UnknownNames : Handles(n)}
       /\ \A n \in OperationNames \cup UnknownNames : Handles(n) => n \in AdvertisedNames
       /\ Cardinality(AdvertisedNames) = Len(TOOLS)
       /\ \A i \in 1..Len(TOOLS) :
            LET properties == TOOLS[i].function.properties IN
            \A k \in DOMAIN properties :
                properties[k].enum = CASE k = "type" -> types
                                       [] k = "status" -> statuses
                                       [] OTHER -> {}
       /\ \A v \in types \cup statuses \cup {Bogus} :
            /\ TaskType(v).raised <=> v \notin types
            /\ TaskStatus(v).raised <=> v \notin statuses
       /\ (/\ last.name \in AdvertisedNames
           /\ DOMAIN last.arguments \subseteq DOMAIN ToolNamed(last.name).properties
           /\ ToolNamed(last.name).required \subseteq DOMAIN last.arguments)
            => ~BindingFails(last.out, last.name)

\* add_task was called with every parameter TOOLS advertises for it but
\* the type, the enum value "done" among them, and stored the task.
C17_Witness ==
    /\ last.name = "add_task"
    /\ DOMAIN last.arguments = DOMAIN ToolNamed("add_task").properties \ {"type"}
    /\ last.arguments["status"] \in ToolNamed("add_task").properties["status"].enum
    /\ ~last.out.raised
    /\ tasks[Len(tasks)].status = TaskStatus_DONE

---------------------------------------------------------------------------
(* Task.to_dict and back: a task is serialised and a task is made from   *)
(* the field map by the add_task branch of _dispatch                      *)

\* Tasks of every type and status, with and without a description and
\* dates; one date has a year of three digits.
RoundTripTasks ==
    { Task(1, T1, TitleAb, description, type, start_date, due_date, status) :
        description \in {EmptyStr, DescD}, type \in TaskTypeMembers,
        start_date \in {None, DayA, Date(999, 1, 5)}, due_date \in {None, DayB},
        status \in TaskStatusMembers }

\* The store holds one task.
InitRoundTrip ==
    /\ tasks \in {<<t>> : t \in RoundTripTasks}
    /\ nextUid = 2
    /\ last = NoCall
    /\ nOps = 0
    /\ pc = "idle"
    /\ messages = <<>>
    /\ message = NoMessage
    /\ idx = 0
    /\ calls = <<>>
    /\ dispatched = <<>>
    /\ outcome = NoOutcome
    /\ nReq = 0
    /\ startTasks = <<>>
    /\ race = NoRace

\* tasks[0].to_dict()
SerializeTask ==
    /\ nOps = 0
    /\ last' = [name |-> "to_dict", arguments |-> EmptyDict, before |-> tasks,
                out |-> DispatchReturn(to_dict(tasks[1]), tasks)]
    /\ nOps' = nOps + 1
    /\ UNCHANGED <<tasks, nextUid, agentVars, race>>

\* _dispatch("add_task", fields) with the field map of the task
ReconstructTask ==
    /\ last.name = "to_dict"
    /\ DoDispatch("add_task", last.out.result)
    /\ UNCHANGED <<agentVars, race>>

NextRoundTrip ==
    \/ SerializeTask
    \/ ReconstructTask

SpecRoundTrip == InitRoundTrip /\ [][NextRoundTrip]_vars

\* A str of the form YYYY-MM-DD.
IsIsoDate(v) ==
    /\ IsStr(v)
    /\ Len(v[2]) = 10
    /\ v[2][5] = "-" /\ v[2][8] = "-"
    /\ \A i \in {1, 2, 3, 4, 6, 7, 9, 10} : \E n \in 1..10 : DigitChars[n] = v[2][i]

\* C18: the field map of a task has the enums as their str values, a date
\* as YYYY-MM-DD and a missing date as None; the task made from the field
\* map is equal field for field to the task, and has the same field map.
C18_RoundTrip ==
    /\ last.name = "to_dict" =>
          LET t == tasks[1]
              fields == last.out.result
          IN /\ DOMAIN fields = TaskFields
             /\ fields["type"] = Str(t.type[2])
             /\ fields["status"] = Str(t.status[2])
             /\ \A k \in {"start_date", "due_date"} :
                  IF t[k] = None THEN fields[k] = None ELSE IsIsoDate(fields[k])
    /\ last.name = "add_task" =>
          /\ ~last.out.raised
          /\ Len(tasks) = 2
          /\ \A k \in TaskFields : tasks[2][k] = tasks[1][k]
          /\ last.out.result = last.arguments

\* A task of type improvement and status cancelled, with a start date in
\* the year 999 and a due date, was serialised and made again.
C18_Witness ==
    /\ last.name = "add_task"
    /\ Len(tasks) = 2
    /\ tasks[1].type = <<"TaskType", <<"i","m","p","r","o","v","e","m","e","n","t">> >>
    /\ tasks[1].status = <<"TaskStatus", <<"c","a","n","c","e","l","l","e","d">> >>
    /\ tasks[1].start_date = Date(999, 1, 5)
    /\ tasks[1].due_date = DayB
    /\ last.arguments["start_date"] = Str(<<"0", "9", "9", "9", "-", "0", "1", "-", "0", "5">>)
    /\ tasks[2].start_date = Date(999, 1, 5)
    /\ tasks[2].uid # tasks[1].uid

\* C19: the store changes only in the step that runs a tool call, and then
\* to the store that the _dispatch call left. The step in which a request
\* ends with an exception, the end of the request and the start of the
\* next one leave the store as it is, so the next request starts on the
\* store with everything the tool calls of the failed request did.
C19_NoRollback ==
    [][/\ tasks' # tasks =>
            /\ pc = "tools" /\ pc' = "tools"
            /\ idx' = idx + 1
            /\ last'.before = tasks
            /\ tasks' = last'.out.tasks
       /\ pc' = "raised" => tasks' = tasks
       /\ pc \in {"returned", "raised"} => tasks' = tasks
       /\ (pc = "idle" /\ pc' = "call1") => (tasks' = tasks /\ startTasks' = tasks)]_vars

\* A request on the empty store ended with an exception and no reply
\* after its two tool calls had run: the second model call raised, and the
\* task that add_task stored is in the store.
C19_Witness ==
    /\ pc = "raised"
    /\ nReq = 1
    /\ outcome = [raised |-> TRUE, exc |-> APIError, value |-> None]
    /\ idx = 2
    /\ message.tool_calls[1].function.name = "add_task"
    /\ startTasks = <<>>
    /\ Len(tasks) = 1
    /\ tasks[1].code = T1

=============================================================================
